---- MODULE Spec2Model ----
(***************************************************************************)
(* Model of the Habana device plugin's hardware abstraction and health     *)
(* event core:                                                             *)
(*   - the health event watcher, watchXIDs                                 *)
(*     (src/hlml_dummy.go 504-566), run against the capability interface   *)
(*     HLMLWrapper (src/unnamed/part_001 4-16) whose results are opaque,    *)
(*   - the synthetic fleet of the fake provider (src/hlml_fake.go 496-905). *)
(* The watcher is a goroutine: every place where it can block (the select, *)
(* the in-flight WaitForEvent call, each channel send) is a value of pc.   *)
(***************************************************************************)
EXTENDS Integers, Sequences, FiniteSets, TLC

VARIABLES
    \* ---- watcher (watchXIDs) ----
    pc,            \* where the watcher goroutine is
    regIdx,        \* index into devs of the device being registered (the range loop of line 510)
    toSend,        \* devices the current range loop still has to send on xids
    queue,         \* contents of the xids channel, oldest first
    cancelled,     \* ctx.Done() is closed
    tickReady,     \* healthCheckInterval.C holds a tick
    nNew,          \* calls of NewEventSet made by this run
    nDel,          \* calls of DeleteEventSet made by this run
    regCalls,      \* serials RegisterEventForDevice was called with, in call order
    regKinds,      \* the events it was called with, in call order
    regFailed,     \* devices whose registration failed, in order
    regPushed,     \* devices sent on xids by the registration loop, in order
    waitRes,       \* what the last WaitForEvent call returned
    lookupRes,     \* what DeviceHandleBySerial returned in the current cycle
    outcome,       \* which branch the current cycle's evaluation took
    cyclePushed,   \* devices sent on xids in the current cycle, in order
    \* ---- synthetic fleet (the globals of src/hlml_fake.go 496-503) ----
    config,                   \* the parsed FakeDeviceConfig
    simulatedDevices,         \* map[uint]*Device: devices by index
    simulatedDevicesBySerial, \* map[string]*Device: devices by serial number
    status,                   \* how far getHlml has come: "none", "built", "panic"
    \* ---- the disk under config.Path ----
    devNodes,                 \* names of the character device nodes under devBasePath
    sysLinks,                 \* bus addresses with a symlink under pciBasePath
    physDirs,                 \* physical-device directories: bus address -> its files
    \* ---- the events of the fake provider ----
    registeredEventsByUUID,   \* map[string][]int: the registered events by serial
    registrations,            \* history: the event set and serial of each call of
                              \* RegisterEventForDevice for the critical error
    lastWait,                 \* the event set and the result of WaitForEvent, when it
                              \* was the latest call
    lastCall,                 \* the latest call of an operation of FakeHlml
    \* ---- the listing of DeviceManager.Devices ----
    provider,                 \* what the provider answers: the count and the handles
    listing,                  \* the result of the latest call of Devices
    \* ---- the decorator VerboseHlml ----
    callerLog,                \* the calls made of VerboseHlml, with what they returned
    implLog,                  \* the calls the wrapped provider got, with what it returned
    \* ---- goroutines calling RegisterEventForDevice at the same time ----
    callers,                  \* for each: how far its call is, and what it holds
    \* ---- the translation of return codes ----
    translation,              \* the latest call of errorString: whose, of what, the error
    \* ---- the process ----
    restarts                  \* how many times the process was started again

watcherVars == <<pc, regIdx, toSend, queue, cancelled, tickReady, nNew, nDel,
                 regCalls, regKinds, regFailed, regPushed, waitRes, lookupRes, outcome,
                 cyclePushed>>

fleetVars == <<config, simulatedDevices, simulatedDevicesBySerial, status>>

diskVars == <<devNodes, sysLinks, physDirs>>

eventVars == <<registeredEventsByUUID, registrations, lastWait, lastCall>>

listVars == <<provider, listing>>

verboseVars == <<callerLog, implLog>>

\* the variables of the parts that come after the listing
otherVars == <<verboseVars, callers, translation, restarts>>

vars == <<watcherVars, fleetVars, diskVars, eventVars, listVars, otherVars>>

(***************************************************************************)
(* Bounds of the model.                                                    *)
(***************************************************************************)
\* number of devices of the known set handed to the watcher
NumDevs == 3
\* capacity of the xids channel the caller made
QueueCap == 2

(***************************************************************************)
(* Data.                                                                   *)
(***************************************************************************)
\* const HlmlCriticalError = 1 << 1; DummyHLML.HlmlCriticalError returns 1 << 1
HlmlCriticalError == 2

SerialNames == <<"dummy-serial-1", "dummy-serial-2", "dummy-serial-3",
                 "dummy-serial-4", "dummy-serial-5">>
UuidNames == <<"uuid-1", "uuid-2", "uuid-3", "uuid-4", "uuid-5">>

\* The known set: Devices() makes one pluginapi.Device per device, ID: serial.
devs == [i \in 1..NumDevs |-> SerialNames[i]]

\* A serial the provider may report that is not in the known set.
ForeignSerial == SerialNames[NumDevs + 1]

\* Serials an Event may carry.
EventSerials == {SerialNames[i] : i \in 1..(NumDevs + 1)}

\* Event.Etype is a bitmask (uint64); two bits are enough to put the critical
\* bit alone (2), with another bit (3), and not at all (0, 1).
EventKinds == 0..3

\* type Event struct { Serial string; Etype uint64 }
Events == [Serial : EventSerials, Etype : EventKinds]

IndexOf(serial) == CHOOSE i \in 1..(NumDevs + 1) : SerialNames[i] = serial

\* The identity strings a provider's device for `serial` may carry: none, the
\* provider's uuid string (dummy and fake providers), or the serial itself
\* (a provider whose uuid is the serial).
UuidsOf(serial) == {"", UuidNames[IndexOf(serial)], serial}

\* (d *Device) UUID(): an error when the uuid is empty
UUID(dev) ==
    IF dev.uuid = "" THEN [err |-> TRUE, val |-> ""]
    ELSE [err |-> FALSE, val |-> dev.uuid]

\* Results of WaitForEvent: an error (Timeout or any other) or an event.
WaitResults ==
    {[err |-> e, event |-> [Serial |-> "", Etype |-> 0]] : e \in {"timeout", "other"}}
    \cup {[err |-> "nil", event |-> ev] : ev \in Events}

NoWait == [err |-> "none", event |-> [Serial |-> "", Etype |-> 0]]

\* Results of DeviceHandleBySerial(serial): an error or a device.
LookupResults(serial) ==
    {[err |-> TRUE, dev |-> [serialNumber |-> "", uuid |-> ""]]}
    \cup {[err |-> FALSE, dev |-> [serialNumber |-> serial, uuid |-> u]] : u \in UuidsOf(serial)}

NoLookup == [err |-> FALSE, dev |-> [serialNumber |-> "", uuid |-> "-"]]

(***************************************************************************)
(* The evaluation of one WaitForEvent result (lines 527-563).              *)
(***************************************************************************)
\* line 534: e.Etype != hlmlWrapper.HlmlCriticalError()
IsCriticalEvent(etype) == etype = HlmlCriticalError

\* AllDevices with the first device of the known set left out
AllDevices_DropFirst == Tail(devs)

\* lines 542-544 and 552-554: for _, d := range devs { xids <- d }
AllDevices == devs

\* MatchingDevices without the comparison of line 559: every known device
MatchingDevices_All(uuid) == devs

\* lines 558-563: the devices d of devs with d.ID == uuid
MatchingDevices(uuid) == SelectSeq(devs, LAMBDA d : d = uuid)

\* Resolve sending a device made from the resolved uuid, not one of devs
Resolve_SendResolved(lk) ==
    IF lk.err THEN [outcome |-> "all", send |-> AllDevices]
    ELSE LET u == UUID(lk.dev) IN
         IF u.err \/ Len(u.val) = 0
         THEN [outcome |-> "all", send |-> AllDevices]
         ELSE [outcome |-> "match", send |-> <<u.val>>]

\* lines 538-563: what a critical event leads to, given the lookup's result
Resolve(lk) ==
    IF lk.err THEN [outcome |-> "all", send |-> AllDevices]
    ELSE LET u == UUID(lk.dev) IN
         IF u.err \/ Len(u.val) = 0
         THEN [outcome |-> "all", send |-> AllDevices]
         ELSE [outcome |-> "match", send |-> MatchingDevices(u.val)]

\* OnWaitError treating the error as a fault of the whole fleet
OnWaitError_MarkAll == [outcome |-> "error", send |-> devs]

\* lines 528-532: an error of WaitForEvent: log, sleep, continue
OnWaitError == [outcome |-> "error", send |-> <<>>]

\* lines 534-536: a heartbeat: continue
OnDiscard == [outcome |-> "discard", send |-> <<>>]

(***************************************************************************)
(* The synthetic fleet of the fake provider (src/hlml_fake.go).            *)
(***************************************************************************)
\* largest DeviceCount a configuration gives
MaxDeviceCount == 3
\* number of values the draw rng.Intn(100000000) of a serial takes here
SerialPoolSize == 3
\* number of values the draws of a uuid take together here
UuidPoolSize == 1
\* number of values the draw rng.Intn(256) of randomHex takes here
RandomHexBound == 1

EmptyMap == [x \in {} |-> x]

\* generateRandomSerialNumber: "FK" and the draw as eight decimal digits
FakeSerials == <<"FK00000000", "FK00000001", "FK00000002", "FK00000003",
                 "FK00000004">>
generateRandomSerialNumber(draw) == FakeSerials[draw + 1]

\* generateRandomUUID: tableVersion-HLDevice-fab-lot-wafer-x-y, the last four
\* drawn; one draw stands for them
FakeUuids == <<"01F0-HL2080F0-99-P73B93-01-01-00", "01F0-HL2080F0-99-TNBR62-01-01-00",
               "01F0-HL2080F0-99-P53B53-01-01-00", "01F0-HL2080F0-99-TNBR72-01-01-00">>
generateRandomUUID(draw) == FakeUuids[draw + 1]

\* what the construction draws: randomHex, and a serial and a uuid per device
Draws(count) ==
    [randomHex : 0..(RandomHexBound - 1),
     serial : [0..(count - 1) -> 0..(SerialPoolSize - 1)],
     uuid : [0..(count - 1) -> 0..(UuidPoolSize - 1)]]

\* lines 544-551: the device made for index i.  pciBusID is
\* Sprintf("0000:%02x:00.0", randomHex+i): the number stands for the string.
NewDevice(cfg, i, draw) ==
    [serialNumber |-> generateRandomSerialNumber(draw.serial[i]),
     uuid |-> generateRandomUUID(draw.uuid[i]),
     pciID |-> cfg.PciID,
     pciBusID |-> draw.randomHex + i,
     Module |-> i,
     Minor |-> i * 2]

\* lines 542-556: the by-index map after the loop
BuildByIndex(cfg, draw) ==
    [i \in 0..(cfg.DeviceCount - 1) |-> NewDevice(cfg, i, draw)]

\* lines 542-556: the by-serial map after the first n rounds of the loop; a
\* round stores its device under its serial, over what is there
RECURSIVE BuildBySerial(_, _)
BuildBySerial(byIndex, n) ==
    IF n = 0 THEN EmptyMap
    ELSE LET m == BuildBySerial(byIndex, n - 1)
             d == byIndex[n - 1]
         IN [s \in DOMAIN m \cup {d.serialNumber} |->
                IF s = d.serialNumber THEN d ELSE m[s]]

NoDevice ==
    [serialNumber |-> "", uuid |-> "", pciID |-> <<>>, pciBusID |-> 0, Module |-> 0,
     Minor |-> 0]

\* lines 811-814: FakeHlml.DeviceCount
DeviceCount == config.DeviceCount

\* lines 817-825: FakeHlml.DeviceHandleBySerial
DeviceHandleBySerial(serial) ==
    IF serial \in DOMAIN simulatedDevicesBySerial
    THEN [err |-> FALSE, dev |-> simulatedDevicesBySerial[serial]]
    ELSE [err |-> TRUE, dev |-> NoDevice]

\* lines 897-905: FakeHlml.DeviceHandleByIndex
DeviceHandleByIndex(index) ==
    IF index \in DOMAIN simulatedDevices
    THEN [err |-> FALSE, dev |-> simulatedDevices[index]]
    ELSE [err |-> TRUE, dev |-> NoDevice]

(***************************************************************************)
(* The configuration and the tree under config.Path.  File contents and    *)
(* PCI ids are strings, written as sequences of characters.                *)
(***************************************************************************)
\* largest NumaNodes a configuration has here
MaxNumaNodes == 2

\* PciID of the configuration, "vendor:device": the default (a gaudi), a goya,
\* a greco, a device id of no family, and a device of another vendor
PciIDs ==
    {<<"1", "d", "a", "3", ":", "1", "0", "2", "0">>,
     <<"1", "d", "a", "3", ":", "0", "0", "0", "1">>,
     <<"1", "d", "a", "3", ":", "0", "0", "3", "0">>,
     <<"1", "d", "a", "3", ":", "f", "f", "f", "f">>,
     <<"8", "0", "8", "6", ":", "1", "0", "2", "0">>}

\* UnhealthyFreq and TimeoutFreq in halves: 0.0, 0.5 and 1.0
FreqValues == {0, 1, 2}
\* rng.Float64() in halves: a value of [0.0, 1.0)
FloatDraws == {0, 1}

\* the configurations getHlml parses here; the frequencies stay at 0.5
FleetConfigs ==
    [DeviceCount : 0..MaxDeviceCount, NumaNodes : 0..MaxNumaNodes, PciID : PciIDs,
     UnhealthyFreq : {1}, TimeoutFreq : {1}]

\* strings.Split(s, ":")
RECURSIVE Split(_)
Split(s) ==
    IF \A k \in 1..Len(s) : s[k] # ":" THEN <<s>>
    ELSE LET k == CHOOSE j \in 1..Len(s) : s[j] = ":" /\ \A m \in 1..(j - 1) : s[m] # ":"
         IN <<SubSeq(s, 1, k - 1)>> \o Split(SubSeq(s, k + 1, Len(s)))

\* strings.Trim(s, "\n")
RECURSIVE Trim(_)
Trim(s) ==
    IF s = <<>> THEN s
    ELSE IF Head(s) = "\n" THEN Trim(Tail(s))
    ELSE IF s[Len(s)] = "\n" THEN Trim(SubSeq(s, 1, Len(s) - 1))
    ELSE s

\* strings.HasSuffix(s, suffix)
HasSuffix(s, suffix) ==
    /\ Len(suffix) <= Len(s)
    /\ SubSeq(s, Len(s) - Len(suffix) + 1, Len(s)) = suffix

\* bytes.TrimSpace
RECURSIVE TrimSpace(_)
TrimSpace(s) ==
    IF s = <<>> THEN s
    ELSE IF Head(s) \in {" ", "\n", "\t", "\r"} THEN TrimSpace(Tail(s))
    ELSE IF s[Len(s)] \in {" ", "\n", "\t", "\r"} THEN TrimSpace(SubSeq(s, 1, Len(s) - 1))
    ELSE s

DigitChars == <<"0", "1", "2", "3", "4", "5", "6", "7", "8", "9">>

\* fmt.Sprintf("%d", n) of an unsigned n
RECURSIVE FormatUint(_)
FormatUint(n) ==
    IF n < 10 THEN <<DigitChars[n + 1]>>
    ELSE FormatUint(n \div 10) \o <<DigitChars[(n % 10) + 1]>>

\* the value of a string of decimal digits, -1 when a character is no digit
RECURSIVE DigitsValue(_, _)
DigitsValue(s, acc) ==
    IF s = <<>> THEN acc
    ELSE IF \E v \in 0..9 : DigitChars[v + 1] = Head(s)
         THEN DigitsValue(Tail(s),
                  acc * 10 + (CHOOSE v \in 0..9 : DigitChars[v + 1] = Head(s)))
         ELSE -1

\* strconv.ParseInt(s, 10, 8): an optional sign, digits, and the range of int8
ParseInt8(s) ==
    LET signed == s # <<>> /\ Head(s) \in {"+", "-"}
        digits == IF signed THEN Tail(s) ELSE s
        v == IF digits = <<>> THEN -1 ELSE DigitsValue(digits, 0)
        val == IF signed /\ Head(s) = "-" THEN 0 - v ELSE v
    IN IF v = -1 \/ val > 127 \/ val < -128
       THEN [err |-> TRUE, val |-> 0]
       ELSE [err |-> FALSE, val |-> val]

\* lines 638-665: createDeviceNodes removes devBasePath and makes accel<i> and
\* accel_controlD<i>, with minors 2i and 2i+1
createDeviceNodes(count) ==
    {[name |-> "accel", n |-> i, minor |-> i * 2] : i \in 0..(count - 1)}
        \cup {[name |-> "accel_controlD", n |-> i, minor |-> i * 2 + 1] :
                 i \in 0..(count - 1)}

\* createFilesInDirectory writing the two ids without the "0x" in front
createFilesInDirectory_NoPrefix(pciID, numaNode) ==
    [device |-> Split(pciID)[2],
     numa_node |-> FormatUint(numaNode),
     vendor |-> Split(pciID)[1]]

\* lines 732-749: the files of one physical-device directory
createFilesInDirectory(pciID, numaNode) ==
    [device |-> <<"0", "x">> \o Split(pciID)[2],
     numa_node |-> FormatUint(numaNode),
     vendor |-> <<"0", "x">> \o Split(pciID)[1]]

\* lines 690-694: devicesPerNode
devicesPerNode(count, numaNodes) ==
    IF count \div numaNodes < 1 THEN 1 ELSE count \div numaNodes

\* lines 697-725: the physical-device directories after the rounds 1..n of the
\* loop; round i makes the directory of device i-1, the symlink to it and its
\* files, with numaNode := (i - 1) / devicesPerNode
RECURSIVE createSymlinkedDirectories(_, _, _, _, _)
createSymlinkedDirectories(dirs, byIndex, count, numaNodes, n) ==
    IF n = 0 THEN dirs
    ELSE LET before == createSymlinkedDirectories(dirs, byIndex, count, numaNodes, n - 1)
             d == byIndex[n - 1]
             numaNode == (n - 1) \div devicesPerNode(count, numaNodes)
         IN [b \in DOMAIN before \cup {d.pciBusID} |->
                IF b = d.pciBusID THEN createFilesInDirectory(d.pciID, numaNode)
                ELSE before[b]]

\* lines 680-687 and 699-717: pciBasePath is removed and made anew, and gets
\* one symlink per device, named by its bus address
LinkedBuses(byIndex, count) == {byIndex[i].pciBusID : i \in 0..(count - 1)}

\* os.ReadFile of pciBasePath/<bus>/<fileName>, through the symlink
FileExists(bus, fileName) ==
    bus \in sysLinks /\ bus \in DOMAIN physDirs /\ fileName \in DOMAIN physDirs[bus]

\* lines 956-965: readIDFromFile
readIDFromFile(bus, fileName) ==
    IF FileExists(bus, fileName)
    THEN [err |-> FALSE,
          id |-> Trim(SubSeq(physDirs[bus][fileName], 3, Len(physDirs[bus][fileName])))]
    ELSE [err |-> TRUE, id |-> <<>>]

\* lines 927-930: the device ids of the families
goya == {<<"0", "0", "0", "1">>}
gaudi ==
    {<<"1", "0", "0", "0">>, <<"1", "0", "0", "1">>, <<"1", "0", "1", "0">>,
     <<"1", "0", "1", "1">>, <<"1", "0", "2", "0">>, <<"1", "0", "3", "0">>,
     <<"1", "0", "6", "0">>, <<"1", "0", "6", "1">>, <<"1", "0", "6", "2">>}
greco == {<<"0", "0", "2", "0">>, <<"0", "0", "3", "0">>}

\* lines 945-953: checkFamily
checkFamily(family, id) == \E m \in family : HasSuffix(id, m)

\* lines 926-942: getDeviceName
getDeviceName(deviceID) ==
    IF checkFamily(goya, deviceID) THEN [err |-> FALSE, name |-> "goya"]
    ELSE IF checkFamily(gaudi, deviceID) THEN [err |-> FALSE, name |-> "gaudi"]
    ELSE IF checkFamily(greco, deviceID) THEN [err |-> FALSE, name |-> "greco"]
    ELSE [err |-> TRUE, name |-> ""]

\* the vendor id GetDeviceTypeName looks for, line 787
HabanaVendor == <<"1", "d", "a", "3">>

\* the entries of pciBasePath from bus address b on, in the order of the walk
BusesFrom(b) == {x \in sysLinks : x >= b}

\* lines 764-808: GetDeviceTypeName from the entry b on, with deviceType as
\* the entries before b left it.  An entry of another vendor is skipped, an
\* unreadable file or a device id of no family ends the walk with an error,
\* and after the last entry deviceType is returned with no error.
RECURSIVE WalkFrom(_, _)
WalkFrom(b, deviceType) ==
    IF BusesFrom(b) = {} THEN [err |-> FALSE, name |-> deviceType]
    ELSE LET bus == CHOOSE x \in BusesFrom(b) : \A y \in BusesFrom(b) : x <= y
             vendorID == readIDFromFile(bus, "vendor")
             deviceID == readIDFromFile(bus, "device")
         IN IF vendorID.err THEN [err |-> TRUE, name |-> ""]
            ELSE IF vendorID.id # HabanaVendor THEN WalkFrom(bus + 1, deviceType)
            ELSE IF deviceID.err THEN [err |-> TRUE, name |-> ""]
            ELSE IF getDeviceName(deviceID.id).err THEN [err |-> TRUE, name |-> ""]
            ELSE WalkFrom(bus + 1, getDeviceName(deviceID.id).name)

GetDeviceTypeName == WalkFrom(0, "")

\* lines 1015-1039: Device.NumaNode.  A missing file and a negative number are
\* no affinity; a file that is no int8 is an error.
NumaNode(d) ==
    IF ~FileExists(d.pciBusID, "numa_node")
    THEN [err |-> FALSE, present |-> FALSE, node |-> 0]
    ELSE LET parsed == ParseInt8(TrimSpace(physDirs[d.pciBusID]["numa_node"]))
         IN IF parsed.err THEN [err |-> TRUE, present |-> FALSE, node |-> 0]
            ELSE IF parsed.val < 0 THEN [err |-> FALSE, present |-> FALSE, node |-> 0]
            ELSE [err |-> FALSE, present |-> TRUE, node |-> parsed.val]

(***************************************************************************)
(* The events of the fake provider.                                        *)
(***************************************************************************)
\* most calls of RegisterEventForDevice in a run
MaxRegs == 2

\* lines 469-470
HlmlEventEccErr == 1
HlmlEventCriticalErr == 2

\* the event sets NewEventSet has returned (lines 828-831)
EventSetHandles == {1, 2}
\* the events and the serials RegisterEventForDevice is called with
RegEvents == {HlmlEventEccErr, HlmlEventCriticalErr}
RegSerials == {FakeSerials[k] : k \in 1..SerialPoolSize}

\* isEventRegistered holding only for an event that is in the list once
isEventRegistered_Once(events, event) ==
    Cardinality({k \in 1..Len(events) : events[k] = event}) = 1

\* lines 887-894: isEventRegistered
isEventRegistered(events, event) == \E k \in 1..Len(events) : events[k] = event

\* the results of WaitForEvent: an event, the timeout error, another error, or
\* the panic of rng.Intn(0).  device is the serial of the drawn device.
NoOutcome == [res |-> "none", Serial |-> "", Etype |-> 0, slept |-> FALSE, device |-> ""]
PanicOutcome == [res |-> "panic", Serial |-> "", Etype |-> 0, slept |-> FALSE, device |-> ""]
ErrorOutcome == [res |-> "error", Serial |-> "", Etype |-> 0, slept |-> FALSE, device |-> ""]
TimeoutOutcome(serial) ==
    [res |-> "timeout", Serial |-> "", Etype |-> 0, slept |-> TRUE, device |-> serial]
EventOutcome(serial, etype) ==
    [res |-> "event", Serial |-> serial, Etype |-> etype, slept |-> FALSE, device |-> serial]

\* waitForEvent making its two draws whatever is registered
waitForEvent_Unregistered(registered, randomIndex, timeoutDraw, unhealthyDraw) ==
    IF randomIndex \notin DOMAIN simulatedDevices THEN ErrorOutcome
    ELSE LET serialNumber == simulatedDevices[randomIndex].serialNumber
         IN IF serialNumber = "" THEN ErrorOutcome
            ELSE IF timeoutDraw < config.TimeoutFreq THEN TimeoutOutcome(serialNumber)
            ELSE IF unhealthyDraw < config.UnhealthyFreq
                 THEN EventOutcome(serialNumber, HlmlEventCriticalErr)
            ELSE EventOutcome(serialNumber, 0)

\* waitForEvent without the sleep of line 868
waitForEvent_NoSleep(registered, randomIndex, timeoutDraw, unhealthyDraw) ==
    IF randomIndex \notin DOMAIN simulatedDevices THEN ErrorOutcome
    ELSE LET serialNumber == simulatedDevices[randomIndex].serialNumber
         IN IF serialNumber = "" THEN ErrorOutcome
            ELSE IF /\ serialNumber \in DOMAIN registered
                    /\ isEventRegistered(registered[serialNumber], HlmlEventCriticalErr)
                    /\ timeoutDraw < config.TimeoutFreq
                 THEN [TimeoutOutcome(serialNumber) EXCEPT !.slept = FALSE]
            ELSE IF /\ serialNumber \in DOMAIN registered
                    /\ isEventRegistered(registered[serialNumber], HlmlEventCriticalErr)
                    /\ unhealthyDraw < config.UnhealthyFreq
                 THEN EventOutcome(serialNumber, HlmlEventCriticalErr)
            ELSE EventOutcome(serialNumber, 0)

\* lines 852-883: WaitForEvent after the draw of randomIndex, with the two
\* draws of rng.Float64()
waitForEvent(registered, randomIndex, timeoutDraw, unhealthyDraw) ==
    IF randomIndex \notin DOMAIN simulatedDevices THEN ErrorOutcome
    ELSE LET serialNumber == simulatedDevices[randomIndex].serialNumber
         IN IF serialNumber = "" THEN ErrorOutcome
            ELSE IF /\ serialNumber \in DOMAIN registered
                    /\ isEventRegistered(registered[serialNumber], HlmlEventCriticalErr)
                    /\ timeoutDraw < config.TimeoutFreq
                 THEN TimeoutOutcome(serialNumber)
            ELSE IF /\ serialNumber \in DOMAIN registered
                    /\ isEventRegistered(registered[serialNumber], HlmlEventCriticalErr)
                    /\ unhealthyDraw < config.UnhealthyFreq
                 THEN EventOutcome(serialNumber, HlmlEventCriticalErr)
            ELSE EventOutcome(serialNumber, 0)

\* lines 847-884: every result WaitForEvent can return with these registered
\* events; rng.Intn(int(config.DeviceCount)) panics when DeviceCount is 0
WaitOutcomes(registered) ==
    IF config.DeviceCount = 0 THEN {PanicOutcome}
    ELSE {waitForEvent(registered, randomIndex, timeoutDraw, unhealthyDraw) :
              randomIndex \in 0..(config.DeviceCount - 1),
              timeoutDraw \in FloatDraws, unhealthyDraw \in FloatDraws}

\* the number of events registered, over all serials
RECURSIVE RegCount(_, _)
RegCount(registered, serials) ==
    IF serials = {} THEN 0
    ELSE LET s == CHOOSE x \in serials : TRUE
         IN Len(registered[s]) + RegCount(registered, serials \ {s})

\* the latest call: the operation, the event, serial and index it was given,
\* and whether it returned an error
Call(op, event, uuid, index, err) ==
    [op |-> op, event |-> event, uuid |-> uuid, index |-> index, err |-> err]

NoCall == Call("none", 0, "", 0, FALSE)

InitEvents ==
    /\ registeredEventsByUUID = EmptyMap
    /\ registrations = {}
    /\ lastWait = [es |-> 0, out |-> NoOutcome]
    /\ lastCall = NoCall

\* lines 496-503: the package's globals before getHlml has run, on a disk
\* that has nothing under config.Path
ZeroConfig ==
    [DeviceCount |-> 0, NumaNodes |-> 0, PciID |-> <<>>, UnhealthyFreq |-> 0,
     TimeoutFreq |-> 0]

InitFleet ==
    /\ config = ZeroConfig
    /\ simulatedDevices = EmptyMap
    /\ simulatedDevicesBySerial = EmptyMap
    /\ status = "none"

\* getHlml has returned: both maps, the device nodes and the PCI tree are made
Built == status = "built"

InitDisk ==
    /\ devNodes = {}
    /\ sysLinks = {}
    /\ physDirs = EmptyMap

\* lines 608-635 and 518-565: getHlml parses the configuration and
\* initializeSimulatedDevices makes both maps anew, then the device nodes and
\* the PCI tree.  The division of line 690 panics when NumaNodes is 0.
InitializeSimulatedDevices ==
    /\ status = "none"
    /\ \E cfg \in FleetConfigs :
         \E draw \in Draws(cfg.DeviceCount) :
           LET byIndex == BuildByIndex(cfg, draw)
           IN /\ config' = cfg
              /\ simulatedDevices' = byIndex
              /\ simulatedDevicesBySerial' = BuildBySerial(byIndex, cfg.DeviceCount)
              /\ devNodes' = createDeviceNodes(cfg.DeviceCount)
              /\ IF cfg.NumaNodes = 0
                 THEN /\ status' = "panic"
                      /\ sysLinks' = {}
                      /\ UNCHANGED physDirs
                 ELSE /\ status' = "built"
                      /\ sysLinks' = LinkedBuses(byIndex, cfg.DeviceCount)
                      /\ physDirs' = createSymlinkedDirectories(physDirs, byIndex,
                                         cfg.DeviceCount, cfg.NumaNodes, cfg.DeviceCount)
    /\ UNCHANGED <<watcherVars, eventVars, listVars, otherVars>>

\* lines 841-842 for the serial uuid and the event: append to the list of uuid
AppendEvent(registered, uuid, event) ==
    [s \in DOMAIN registered \cup {uuid} |->
        IF s = uuid
        THEN Append(IF uuid \in DOMAIN registered THEN registered[uuid] ELSE <<>>, event)
        ELSE registered[s]]

\* the history after RegisterEventForDevice(es, event, uuid)
Registered(made, es, event, uuid) ==
    IF event = HlmlEventCriticalErr THEN made \cup {[es |-> es, uuid |-> uuid]} ELSE made

\* RegisterEventForDevice returning success without storing the event
RegisterEventForDevice_Drop ==
    /\ Built
    /\ RegCount(registeredEventsByUUID, DOMAIN registeredEventsByUUID) < MaxRegs
    /\ \E es \in EventSetHandles, event \in RegEvents, uuid \in RegSerials :
         /\ UNCHANGED registeredEventsByUUID
         /\ registrations' = Registered(registrations, es, event, uuid)
         /\ lastCall' = Call("RegisterEventForDevice", event, uuid, 0, FALSE)
    /\ lastWait' = [es |-> 0, out |-> NoOutcome]
    /\ UNCHANGED <<watcherVars, fleetVars, diskVars, listVars, otherVars>>

\* lines 839-844: RegisterEventForDevice(es, event, uuid); es is not used
RegisterEventForDevice ==
    /\ Built
    /\ RegCount(registeredEventsByUUID, DOMAIN registeredEventsByUUID) < MaxRegs
    /\ \E es \in EventSetHandles, event \in RegEvents, uuid \in RegSerials :
         /\ registeredEventsByUUID' = AppendEvent(registeredEventsByUUID, uuid, event)
         /\ registrations' = Registered(registrations, es, event, uuid)
         /\ lastCall' = Call("RegisterEventForDevice", event, uuid, 0, FALSE)
    /\ lastWait' = [es |-> 0, out |-> NoOutcome]
    /\ UNCHANGED <<watcherVars, fleetVars, diskVars, listVars, otherVars>>

\* lines 847-884: WaitForEvent(es, timeout); es is not used.  The panic of
\* rng.Intn(0) ends the process.
WaitForEvent ==
    /\ Built
    /\ \E es \in EventSetHandles :
         \E out \in WaitOutcomes(registeredEventsByUUID) :
           /\ lastWait' = [es |-> es, out |-> out]
           /\ status' = IF out.res = "panic" THEN "panic" ELSE status
    /\ lastCall' = Call("WaitForEvent", 0, "", 0, FALSE)
    /\ UNCHANGED <<config, simulatedDevices, simulatedDevicesBySerial>>
    /\ UNCHANGED <<watcherVars, diskVars, registeredEventsByUUID, registrations, listVars, otherVars>>

(***************************************************************************)
(* DeviceManager.Devices, the listing of the devices of a provider.  The   *)
(* provider is any HLMLWrapper; a device it hands out is a Device of       *)
(* hlml_dummy.go, whose attribute is unavailable when its field is empty.  *)
(***************************************************************************)
\* most devices DeviceCount reports here
MaxListDevices == 2

\* the file /sys/bus/pci/devices/<bus>/numa_node: none, a node, a node with a
\* newline, a negative number, and no number
NumaFiles ==
    {[exists |-> FALSE, data |-> <<>>],
     [exists |-> TRUE, data |-> <<"1">>],
     [exists |-> TRUE, data |-> <<"0", "\n">>],
     [exists |-> TRUE, data |-> <<"-", "1">>],
     [exists |-> TRUE, data |-> <<"x">>]}

\* lines 20-28: the devices a handle can be of; an empty field is an
\* attribute that is not available
ListedDevices ==
    [serialNumber : {"", "dummy-serial-1"}, uuid : {"", "uuid-1"},
     pciID : {"", "0x8086"}, pciBusID : {"", "0000:00:1f.1"}, numaFile : NumaFiles]

\* what the provider answers: DeviceCount fails or gives count, and
\* DeviceHandleByIndex(i) gives handles[i], or fails where that is NoHandle
NoHandle == [serialNumber |-> "none"]
Providers ==
    {[countErr |-> TRUE, count |-> 0, handles |-> EmptyMap]}
        \cup UNION {[countErr : {FALSE}, count : {n},
                     handles : [0..(n - 1) -> ListedDevices \cup {NoHandle}]] :
                        n \in 0..MaxListDevices}

\* hlml_dummy.go lines 166-170: what DummyHLML.DeviceCount returns
simulatedDeviceCount == 8

\* hlml_dummy.go lines 244-280: the devices DummyHLML.DeviceHandleByIndex has
DummySerials == <<"dummy-serial-1", "dummy-serial-2", "dummy-serial-3",
                  "dummy-serial-4", "dummy-serial-5">>
DummyUuids == <<"uuid-1", "uuid-2", "uuid-3", "uuid-4", "uuid-5">>
DummyPciIDs == <<"0x8086", "0x8087", "0x8088", "0x8089", "0x8090">>
DummyPciBusIDs == <<"0000:00:1f.1", "0000:00:1f.2", "0000:00:1f.3", "0000:00:1f.4",
                    "0000:00:1f.5">>

\* hlml_dummy.go lines 242-289: DummyHLML.DeviceHandleByIndex(index), on a
\* host whose numa_node file of bus k is files[k]
DummyDeviceHandleByIndex(index, files) ==
    IF index + 1 \in DOMAIN DummySerials
    THEN [serialNumber |-> DummySerials[index + 1], uuid |-> DummyUuids[index + 1],
          pciID |-> DummyPciIDs[index + 1], pciBusID |-> DummyPciBusIDs[index + 1],
          numaFile |-> files[index + 1]]
    ELSE NoHandle

\* DummyHLML as a provider, on every host
DummyProviders ==
    {[countErr |-> FALSE, count |-> simulatedDeviceCount,
      handles |-> [i \in 0..(simulatedDeviceCount - 1) |-> DummyDeviceHandleByIndex(i, files)]] :
        files \in [DOMAIN DummySerials -> NumaFiles]}

\* lines 345-375: PCIID, SerialNumber, UUID, PCIBusID; err is "" for nil
Attribute(value, name) ==
    IF value = "" THEN [err |-> name \o " not available", val |-> ""]
    ELSE [err |-> "", val |-> value]
PCIID(d) == Attribute(d.pciID, "PCIID")
SerialNumber(d) == Attribute(d.serialNumber, "SerialNumber")
UUID_(d) == Attribute(d.uuid, "UUID")
PCIBusID(d) == Attribute(d.pciBusID, "PCIBusID")

\* lines 378-399: Device.NumaNode of hlml_dummy.go
DeviceNumaNode(d) ==
    IF PCIBusID(d).err # "" THEN [err |-> PCIBusID(d).err, present |-> FALSE, node |-> 0]
    ELSE IF ~d.numaFile.exists THEN [err |-> "", present |-> FALSE, node |-> 0]
    ELSE LET parsed == ParseInt8(TrimSpace(d.numaFile.data))
         IN IF parsed.err
            THEN [err |-> "failed to retrieve CPU affinity", present |-> FALSE, node |-> 0]
            ELSE IF parsed.val < 0 THEN [err |-> "", present |-> FALSE, node |-> 0]
            ELSE [err |-> "", present |-> TRUE, node |-> parsed.val]

\* the pluginapi.Device with node 0 for a device of no affinity
PluginDevice_ZeroWhenAbsent(d) ==
    [ID |-> SerialNumber(d).val, Health |-> "Healthy",
     Topology |-> IF DeviceNumaNode(d).present THEN <<DeviceNumaNode(d).node>> ELSE <<0>>]

\* the pluginapi.Device of lines 473-488
PluginDevice(d) ==
    [ID |-> SerialNumber(d).val, Health |-> "Healthy",
     Topology |-> IF DeviceNumaNode(d).present THEN <<DeviceNumaNode(d).node>> ELSE <<>>]

\* the loop body taking a failure of NumaNode for no affinity
ListDevice_IgnoreNumaError(p, i) ==
    LET d == p.handles[i]
    IN IF d = NoHandle THEN [err |-> "could not find device with index", dev |-> <<>>]
       ELSE IF PCIID(d).err # "" THEN [err |-> PCIID(d).err, dev |-> <<>>]
       ELSE IF SerialNumber(d).err # "" THEN [err |-> SerialNumber(d).err, dev |-> <<>>]
       ELSE IF UUID_(d).err # "" THEN [err |-> UUID_(d).err, dev |-> <<>>]
       ELSE [err |-> "", dev |-> <<PluginDevice(d)>>]

\* lines 442-489: the loop body for index i: the error it returns, or the
\* device it appends.  The error of PCIBusID is dropped at line 462.
ListDevice(p, i) ==
    LET d == p.handles[i]
    IN IF d = NoHandle THEN [err |-> "could not find device with index", dev |-> <<>>]
       ELSE IF PCIID(d).err # "" THEN [err |-> PCIID(d).err, dev |-> <<>>]
       ELSE IF SerialNumber(d).err # "" THEN [err |-> SerialNumber(d).err, dev |-> <<>>]
       ELSE IF UUID_(d).err # "" THEN [err |-> UUID_(d).err, dev |-> <<>>]
       ELSE IF DeviceNumaNode(d).err # "" THEN [err |-> DeviceNumaNode(d).err, dev |-> <<>>]
       ELSE [err |-> "", dev |-> <<PluginDevice(d)>>]

\* lines 441-492: the loop from index i on, with listed as devs is so far
RECURSIVE DevicesFrom(_, _, _)
DevicesFrom(p, i, listed) ==
    IF i >= p.count THEN [called |-> TRUE, err |-> "", devs |-> listed]
    ELSE IF ListDevice(p, i).err # ""
         THEN [called |-> TRUE, err |-> ListDevice(p, i).err, devs |-> <<>>]
    ELSE DevicesFrom(p, i + 1, listed \o ListDevice(p, i).dev)

NotListed == [called |-> FALSE, err |-> "", devs |-> <<>>]

InitList ==
    /\ provider = [countErr |-> FALSE, count |-> 0, handles |-> EmptyMap]
    /\ listing = NotListed

\* lines 430-493: DeviceManager.Devices
Devices ==
    /\ listing' = IF provider.countErr
                  THEN [called |-> TRUE, err |-> "DeviceCount failed", devs |-> <<>>]
                  ELSE DevicesFrom(provider, 0, <<>>)
    /\ UNCHANGED <<provider, watcherVars, fleetVars, diskVars, eventVars, otherVars>>

(***************************************************************************)
(* VerboseHlml, the decorator of src/hlml_verbose.go.  It wraps any Hlml:  *)
(* what the wrapped provider answers to a call is its own affair, and its  *)
(* state is a function of the calls it got.                                *)
(***************************************************************************)
\* most calls of VerboseHlml in a run
MaxCalls == 2

\* the arguments an operation is called with here
CallerArgs(op) ==
    CASE op \in {"DeviceHandleBySerial"} -> {<<SerialNames[1]>>, <<SerialNames[2]>>}
      [] op \in {"DeviceHandleByIndex"} -> {<<0>>, <<1>>}
      [] op \in {"DeleteEventSet"} -> {<<es>> : es \in EventSetHandles}
      [] op \in {"RegisterEventForDevice"} ->
             {<<1, HlmlEventCriticalErr, SerialNames[1]>>,
              <<2, HlmlEventCriticalErr, SerialNames[2]>>}
      [] op \in {"WaitForEvent"} -> {<<es, 1000>> : es \in EventSetHandles}
      [] OTHER -> {<<>>}

\* what a wrapped provider may answer: values and errors, "nil" for no error
ImplAnswers(op) ==
    CASE op \in {"Initialize", "Shutdown", "RegisterEventForDevice"} ->
             {<<"nil">>, <<"error">>}
      [] op \in {"GetDeviceTypeName"} -> {<<"gaudi", "nil">>, <<"", "error">>}
      [] op \in {"DeviceCount"} -> {<<1, "nil">>, <<0, "error">>}
      [] op \in {"DeviceHandleBySerial", "DeviceHandleByIndex"} ->
             {<<"device", "nil">>, <<"no device", "error">>}
      [] op \in {"NewEventSet"} -> {<<es>> : es \in EventSetHandles}
      [] op \in {"DeleteEventSet"} -> {<<>>}
      [] op \in {"WaitForEvent"} ->
             {<<[Serial |-> SerialNames[1], Etype |-> HlmlEventCriticalErr], "nil">>,
              <<[Serial |-> "", Etype |-> 0], "timeout">>}
      [] OTHER -> {<<HlmlCriticalError>>}

\* a method of VerboseHlml that returns no error whatever the provider returned
ThroughVerbose_NoError(op) ==
    /\ Len(callerLog) < MaxCalls
    /\ \E args \in CallerArgs(op), answer \in ImplAnswers(op) :
         /\ implLog' = Append(implLog, [op |-> op, args |-> args, answer |-> answer])
         /\ callerLog' = Append(callerLog,
                [op |-> op, args |-> args,
                 answer |-> IF answer = <<>> THEN answer
                            ELSE [answer EXCEPT ![Len(answer)] = "nil"]])
    /\ UNCHANGED <<watcherVars, fleetVars, diskVars, eventVars, listVars, callers, translation, restarts>>

\* the body every method of VerboseHlml has (lines 28-103): log, call the same
\* operation of v.impl with the arguments given, log, return what it returned
ThroughVerbose(op) ==
    /\ Len(callerLog) < MaxCalls
    /\ \E args \in CallerArgs(op), answer \in ImplAnswers(op) :
         /\ implLog' = Append(implLog, [op |-> op, args |-> args, answer |-> answer])
         /\ callerLog' = Append(callerLog, [op |-> op, args |-> args, answer |-> answer])
    /\ UNCHANGED <<watcherVars, fleetVars, diskVars, eventVars, listVars, callers, translation, restarts>>

VerboseInitialize == ThroughVerbose("Initialize")
VerboseShutdown == ThroughVerbose("Shutdown")
VerboseGetDeviceTypeName == ThroughVerbose("GetDeviceTypeName")
VerboseDeviceCount == ThroughVerbose("DeviceCount")
VerboseDeviceHandleBySerial == ThroughVerbose("DeviceHandleBySerial")
VerboseNewEventSet == ThroughVerbose("NewEventSet")
VerboseDeleteEventSet == ThroughVerbose("DeleteEventSet")
VerboseRegisterEventForDevice == ThroughVerbose("RegisterEventForDevice")
VerboseWaitForEvent == ThroughVerbose("WaitForEvent")
VerboseDeviceHandleByIndex == ThroughVerbose("DeviceHandleByIndex")
VerboseHlmlCriticalError == ThroughVerbose("HlmlCriticalError")

InitVerbose ==
    /\ callerLog = <<>>
    /\ implLog = <<>>

(***************************************************************************)
(* RegisterEventForDevice called by goroutines at the same time.  Line 842 *)
(* is a read of the map, an append and a write of the map, under no lock;  *)
(* the steps of two calls interleave.                                      *)
(***************************************************************************)
Callers == {1, 2}

NotCalling == [pc |-> "idle", event |-> 0, uuid |-> "", seen |-> <<>>]

InitCallers == callers = [c \in Callers |-> NotCalling]

\* line 842, right-hand side: caller c reads registeredEventsByUUID[uuid]
\* (nil for a serial that is not a key)
RegisterLoad ==
    /\ Built
    /\ \E c \in Callers, event \in RegEvents, uuid \in RegSerials :
         /\ callers[c].pc = "idle"
         /\ callers' = [callers EXCEPT ![c] =
                [pc |-> "loaded", event |-> event, uuid |-> uuid,
                 seen |-> IF uuid \in DOMAIN registeredEventsByUUID
                          THEN registeredEventsByUUID[uuid] ELSE <<>>]]
    /\ UNCHANGED <<watcherVars, fleetVars, diskVars, eventVars, listVars, verboseVars, translation, restarts>>

\* line 842, assignment: caller c writes the list it read, with its event
\* appended, and returns
RegisterStore ==
    /\ Built
    /\ \E c \in Callers, es \in EventSetHandles :
         /\ callers[c].pc = "loaded"
         /\ registeredEventsByUUID' =
                [s \in DOMAIN registeredEventsByUUID \cup {callers[c].uuid} |->
                    IF s = callers[c].uuid
                    THEN Append(callers[c].seen, callers[c].event)
                    ELSE registeredEventsByUUID[s]]
         /\ registrations' = Registered(registrations, es, callers[c].event, callers[c].uuid)
         /\ lastCall' = Call("RegisterEventForDevice", callers[c].event, callers[c].uuid,
                              0, FALSE)
         /\ callers' = [callers EXCEPT ![c].pc = "done"]
    /\ lastWait' = [es |-> 0, out |-> NoOutcome]
    /\ UNCHANGED <<watcherVars, fleetVars, diskVars, listVars, verboseVars, translation, restarts>>

\* the write of the map by one call overlapping the write of another or the
\* read of line 864: the runtime may end the process ("concurrent map
\* writes", "concurrent map read and map write")
ConcurrentMapAccess ==
    /\ Built
    /\ \E c \in Callers : callers[c].pc = "loaded"
    /\ status' = "panic"
    /\ UNCHANGED <<config, simulatedDevices, simulatedDevicesBySerial>>
    /\ UNCHANGED <<watcherVars, diskVars, eventVars, listVars, otherVars>>

(***************************************************************************)
(* errorString, the translation of a return code of the library into an    *)
(* error, of hlml_fake.go and of hlml_dummy.go.  The error is "" for nil.  *)
(***************************************************************************)
HlmlSuccess == 0
HlmlErrorTimeout == 10

HLML_SUCCESS == 0
HLML_ERROR_UNINITIALIZED == 1
HLML_ERROR_INVALID_ARGUMENT == 2
HLML_ERROR_NOT_SUPPORTED == 3
HLML_ERROR_ALREADY_INITIALIZED == 5
HLML_ERROR_NOT_FOUND == 6
HLML_ERROR_INSUFFICIENT_SIZE == 7
HLML_ERROR_DRIVER_NOT_LOADED == 9
HLML_ERROR_TIMEOUT == 10
HLML_ERROR_AIP_IS_LOST == 15
HLML_ERROR_MEMORY == 20
HLML_ERROR_NO_DATA == 21
HLML_ERROR_UNKNOWN == 49

\* the codes errorString is called with: those of the library and one past
HLMLReturn == 0..(HLML_ERROR_UNKNOWN + 1)

\* hlml_fake.go lines 506-515
errorString(ret) ==
    CASE ret = HlmlSuccess -> ""
      [] ret = HlmlErrorTimeout -> "hlml: event timeout"
      [] OTHER -> "invalid HLML error return code"

\* hlml_dummy.go lines 81-109
DummyErrorString(ret) ==
    CASE ret \in {HLML_SUCCESS, HLML_ERROR_TIMEOUT} -> ""
      [] ret = HLML_ERROR_UNINITIALIZED -> "hlml not initialized"
      [] ret = HLML_ERROR_INVALID_ARGUMENT -> "invalid argument"
      [] ret = HLML_ERROR_NOT_SUPPORTED -> "not supported"
      [] ret = HLML_ERROR_ALREADY_INITIALIZED -> "hlml already initialized"
      [] ret = HLML_ERROR_NOT_FOUND -> "not found"
      [] ret = HLML_ERROR_INSUFFICIENT_SIZE -> "insufficient size"
      [] ret = HLML_ERROR_DRIVER_NOT_LOADED -> "driver not loaded"
      [] ret = HLML_ERROR_AIP_IS_LOST -> "aip is lost"
      [] ret = HLML_ERROR_MEMORY -> "memory error"
      [] ret = HLML_ERROR_NO_DATA -> "no data"
      [] ret = HLML_ERROR_UNKNOWN -> "unknown error"
      [] OTHER -> "invalid HLML error return code"

NoTranslation == [of |-> "none", ret |-> 0, err |-> ""]

InitTranslation == translation = NoTranslation

\* a call of the errorString of hlml_fake.go
FakeErrorString ==
    /\ \E ret \in HLMLReturn :
         translation' = [of |-> "fake", ret |-> ret, err |-> errorString(ret)]
    /\ UNCHANGED <<watcherVars, fleetVars, diskVars, eventVars, listVars, verboseVars, callers, restarts>>

\* a call of the errorString of hlml_dummy.go
DummyHLMLErrorString ==
    /\ \E ret \in HLMLReturn :
         translation' = [of |-> "dummy", ret |-> ret, err |-> DummyErrorString(ret)]
    /\ UNCHANGED <<watcherVars, fleetVars, diskVars, eventVars, listVars, verboseVars, callers, restarts>>

(***************************************************************************)
(* The process ending and being started again with the same config.Path:   *)
(* the globals of lines 496-503 are as at the start, the disk is kept.     *)
(***************************************************************************)
\* most restarts of the process
MaxRestarts == 1

InitProcess == restarts = 0

Restart ==
    /\ status \in {"built", "panic"}
    /\ restarts < MaxRestarts
    /\ restarts' = restarts + 1
    /\ config' = ZeroConfig
    /\ simulatedDevices' = EmptyMap
    /\ simulatedDevicesBySerial' = EmptyMap
    /\ status' = "none"
    /\ registeredEventsByUUID' = EmptyMap
    /\ registrations' = {}
    /\ lastWait' = [es |-> 0, out |-> NoOutcome]
    /\ lastCall' = NoCall
    /\ UNCHANGED <<watcherVars, diskVars, listVars, verboseVars, callers, translation>>

InitOther == InitVerbose /\ InitCallers /\ InitTranslation /\ InitProcess

(***************************************************************************)
(* Initial state: watchXIDs has been called and has not run yet.           *)
(***************************************************************************)
InitWatcher ==
    /\ pc = "idle"
    /\ regIdx = 1
    /\ toSend = <<>>
    /\ queue = <<>>
    /\ cancelled = FALSE
    /\ tickReady = FALSE
    /\ nNew = 0
    /\ nDel = 0
    /\ regCalls = <<>>
    /\ regKinds = <<>>
    /\ regFailed = <<>>
    /\ regPushed = <<>>
    /\ waitRes = NoWait
    /\ lookupRes = NoLookup
    /\ outcome = "none"
    /\ cyclePushed = <<>>

Init == InitWatcher /\ InitFleet /\ InitDisk /\ InitEvents /\ InitList /\ InitOther

histVars == <<regCalls, regKinds, regFailed, regPushed, waitRes, lookupRes, outcome, cyclePushed>>

\* line 507-508: eventSet := NewEventSet(); defer DeleteEventSet(eventSet)
Start ==
    /\ pc = "idle"
    /\ nNew' = nNew + 1
    /\ pc' = IF NumDevs = 0 THEN "select" ELSE "register"
    /\ UNCHANGED <<regIdx, toSend, queue, cancelled, tickReady, nDel, histVars>>
    /\ UNCHANGED <<fleetVars, diskVars, eventVars, listVars, otherVars>>

\* the range loop of line 510 ending one device early
AfterRegister_SkipLast == IF regIdx >= NumDevs - 1 THEN "select" ELSE "register"

\* where the range loop of line 510 goes after device regIdx
AfterRegister == IF regIdx = NumDevs THEN "select" ELSE "register"

\* RegisterEvent without the send of line 514: a failure is only logged
RegisterEvent_NoPush ==
    /\ pc = "register"
    /\ regCalls' = Append(regCalls, devs[regIdx])
    /\ regKinds' = Append(regKinds, HlmlCriticalError)
    /\ \E ok \in BOOLEAN :
         /\ pc' = AfterRegister
         /\ regIdx' = regIdx + 1
         /\ regFailed' = IF ok THEN regFailed ELSE Append(regFailed, devs[regIdx])
    /\ UNCHANGED <<toSend, queue, cancelled, tickReady, nNew, nDel, regPushed,
                   waitRes, lookupRes, outcome, cyclePushed>>
    /\ UNCHANGED <<fleetVars, diskVars, eventVars, listVars, otherVars>>

\* lines 511-516: RegisterEventForDevice for devs[regIdx]; on an error the
\* device is sent on xids (the send may block: pc "regSend")
RegisterEvent ==
    /\ pc = "register"
    /\ regCalls' = Append(regCalls, devs[regIdx])
    /\ regKinds' = Append(regKinds, HlmlCriticalError)
    /\ \E ok \in BOOLEAN :
         IF ok
         THEN /\ pc' = AfterRegister
              /\ regIdx' = regIdx + 1
              /\ UNCHANGED regFailed
         ELSE /\ pc' = "regSend"
              /\ regFailed' = Append(regFailed, devs[regIdx])
              /\ UNCHANGED regIdx
    /\ UNCHANGED <<toSend, queue, cancelled, tickReady, nNew, nDel, regPushed,
                   waitRes, lookupRes, outcome, cyclePushed>>
    /\ UNCHANGED <<fleetVars, diskVars, eventVars, listVars, otherVars>>

\* line 514: xids <- d, then continue
RegisterSend ==
    /\ pc = "regSend"
    /\ Len(queue) < QueueCap
    /\ queue' = Append(queue, devs[regIdx])
    /\ regPushed' = Append(regPushed, devs[regIdx])
    /\ pc' = AfterRegister
    /\ regIdx' = regIdx + 1
    /\ UNCHANGED <<toSend, cancelled, tickReady, nNew, nDel, regCalls, regKinds, regFailed,
                   waitRes, lookupRes, outcome, cyclePushed>>
    /\ UNCHANGED <<fleetVars, diskVars, eventVars, listVars, otherVars>>

\* StopOnCancel without the defer of line 508: the event set is never deleted
StopOnCancel_NoRelease ==
    /\ pc = "select"
    /\ cancelled
    /\ pc' = "stopped"
    /\ UNCHANGED <<regIdx, toSend, queue, cancelled, tickReady, nNew, nDel, histVars>>
    /\ UNCHANGED <<fleetVars, diskVars, eventVars, listVars, otherVars>>

\* lines 523-525: case <-ctx.Done(): return; the deferred DeleteEventSet runs
StopOnCancel ==
    /\ pc = "select"
    /\ cancelled
    /\ pc' = "stopped"
    /\ nDel' = nDel + 1
    /\ UNCHANGED <<regIdx, toSend, queue, cancelled, tickReady, nNew, histVars>>
    /\ UNCHANGED <<fleetVars, diskVars, eventVars, listVars, otherVars>>

\* lines 526-527: case <-healthCheckInterval.C: WaitForEvent is called
TickCase ==
    /\ pc = "select"
    /\ tickReady
    /\ tickReady' = FALSE
    /\ pc' = "wait"
    /\ waitRes' = NoWait
    /\ lookupRes' = NoLookup
    /\ outcome' = "none"
    /\ cyclePushed' = <<>>
    /\ UNCHANGED <<regIdx, toSend, queue, cancelled, nNew, nDel, regCalls, regKinds,
                   regFailed, regPushed>>
    /\ UNCHANGED <<fleetVars, diskVars, eventVars, listVars, otherVars>>

\* lines 527-563 up to the first send: WaitForEvent returns and is evaluated
WaitReturn ==
    /\ pc = "wait"
    /\ \E res \in WaitResults :
         /\ waitRes' = res
         /\ \/ /\ res.err # "nil"
               /\ outcome' = OnWaitError.outcome
               /\ toSend' = OnWaitError.send
               /\ UNCHANGED lookupRes
            \/ /\ res.err = "nil"
               /\ ~IsCriticalEvent(res.event.Etype)
               /\ outcome' = OnDiscard.outcome
               /\ toSend' = OnDiscard.send
               /\ UNCHANGED lookupRes
            \/ /\ res.err = "nil"
               /\ IsCriticalEvent(res.event.Etype)
               /\ \E lk \in LookupResults(res.event.Serial) :
                    /\ lookupRes' = lk
                    /\ outcome' = Resolve(lk).outcome
                    /\ toSend' = Resolve(lk).send
    /\ pc' = IF toSend' = <<>> THEN "select" ELSE "deliver"
    /\ UNCHANGED <<regIdx, queue, cancelled, tickReady, nNew, nDel, regCalls, regKinds,
                   regFailed, regPushed, cyclePushed>>
    /\ UNCHANGED <<fleetVars, diskVars, eventVars, listVars, otherVars>>

\* lines 543, 553, 561: xids <- d
Deliver ==
    /\ pc = "deliver"
    /\ Len(queue) < QueueCap
    /\ queue' = Append(queue, Head(toSend))
    /\ cyclePushed' = Append(cyclePushed, Head(toSend))
    /\ toSend' = Tail(toSend)
    /\ pc' = IF Tail(toSend) = <<>> THEN "select" ELSE "deliver"
    /\ UNCHANGED <<regIdx, cancelled, tickReady, nNew, nDel, regCalls, regKinds, regFailed,
                   regPushed, waitRes, lookupRes, outcome>>
    /\ UNCHANGED <<fleetVars, diskVars, eventVars, listVars, otherVars>>

(***************************************************************************)
(* The environment of the watcher.                                         *)
(***************************************************************************)
\* the caller cancels ctx
Cancel ==
    /\ ~cancelled
    /\ cancelled' = TRUE
    /\ UNCHANGED <<pc, regIdx, toSend, queue, tickReady, nNew, nDel, histVars>>
    /\ UNCHANGED <<fleetVars, diskVars, eventVars, listVars, otherVars>>

\* line 520: the ticker, made after the registration loop, puts a tick on its
\* channel (of capacity 1)
TickerFire ==
    /\ pc \in {"select", "wait", "deliver"}
    /\ ~tickReady
    /\ tickReady' = TRUE
    /\ UNCHANGED <<pc, regIdx, toSend, queue, cancelled, nNew, nDel, histVars>>
    /\ UNCHANGED <<fleetVars, diskVars, eventVars, listVars, otherVars>>

\* the consumer of xids receives one device
Consume ==
    /\ queue # <<>>
    /\ queue' = Tail(queue)
    /\ UNCHANGED <<pc, regIdx, toSend, cancelled, tickReady, nNew, nDel, histVars>>
    /\ UNCHANGED <<fleetVars, diskVars, eventVars, listVars, otherVars>>

Next ==
    \/ Start
    \/ RegisterEvent
    \/ RegisterSend
    \/ StopOnCancel
    \/ TickCase
    \/ WaitReturn
    \/ Deliver
    \/ Cancel
    \/ TickerFire
    \/ Consume

Spec == Init /\ [][Next]_vars

\* the synthetic fleet on its own
NextFleet ==
    \/ InitializeSimulatedDevices

SpecFleet == Init /\ [][NextFleet]_vars

(***************************************************************************)
(* The construction of the fleet by a process and by the one started after *)
(* it, under the same config.Path.                                         *)
(***************************************************************************)
NextRebuild ==
    \/ InitializeSimulatedDevices
    \/ Restart

SpecRebuild == Init /\ [][NextRebuild]_vars

(***************************************************************************)
(* The events of a constructed fleet: getHlml has returned, on an empty    *)
(* disk, and the provider is registered with and waited on.                *)
(***************************************************************************)
\* most devices of a fleet that is waited on
MaxEventDevices == 2

\* the configurations of these fleets: one NUMA node, the default PciID, and
\* every pair of frequencies
EventConfigs ==
    {cfg \in [DeviceCount : 0..MaxEventDevices, NumaNodes : {1}, PciID : PciIDs,
              UnhealthyFreq : FreqValues, TimeoutFreq : FreqValues] :
        cfg.PciID = <<"1", "d", "a", "3", ":", "1", "0", "2", "0">>}

\* the draws of these fleets: the events depend on the serials only through
\* which devices share one, so each pattern of shared serials is drawn once,
\* with its serials in the order of their first device; the uuid and
\* randomHex, which the events do not read, are the first of their pools
EventDraws(count) ==
    {draw \in Draws(count) :
        /\ draw.randomHex = 0
        /\ \A i \in 0..(count - 1) :
               /\ draw.uuid[i] = 0
               /\ \/ draw.serial[i] = 0
                  \/ \E j \in 0..(i - 1) : draw.serial[i] <= draw.serial[j] + 1}

InitEventFleet ==
    \E cfg \in EventConfigs :
      \E draw \in EventDraws(cfg.DeviceCount) :
        LET byIndex == BuildByIndex(cfg, draw)
        IN /\ config = cfg
           /\ simulatedDevices = byIndex
           /\ simulatedDevicesBySerial = BuildBySerial(byIndex, cfg.DeviceCount)
           /\ status = "built"
           /\ devNodes = createDeviceNodes(cfg.DeviceCount)
           /\ sysLinks = LinkedBuses(byIndex, cfg.DeviceCount)
           /\ physDirs = createSymlinkedDirectories(EmptyMap, byIndex, cfg.DeviceCount,
                              cfg.NumaNodes, cfg.DeviceCount)

NextEvents ==
    \/ RegisterEventForDevice
    \/ WaitForEvent

(***************************************************************************)
(* The listing of the devices of any provider.                             *)
(***************************************************************************)
InitListing ==
    /\ InitWatcher /\ InitFleet /\ InitDisk /\ InitEvents /\ InitOther
    /\ provider \in Providers \cup DummyProviders
    /\ listing = NotListed

NextList == \/ Devices

SpecList == InitListing /\ [][NextList]_vars

(***************************************************************************)
(* The translation of return codes by both providers.                      *)
(***************************************************************************)
NextCodes ==
    \/ FakeErrorString
    \/ DummyHLMLErrorString

SpecCodes == Init /\ [][NextCodes]_vars

(***************************************************************************)
(* The calls of a provider through VerboseHlml.                            *)
(***************************************************************************)
NextVerbose ==
    \/ VerboseInitialize
    \/ VerboseShutdown
    \/ VerboseGetDeviceTypeName
    \/ VerboseDeviceCount
    \/ VerboseDeviceHandleBySerial
    \/ VerboseNewEventSet
    \/ VerboseDeleteEventSet
    \/ VerboseRegisterEventForDevice
    \/ VerboseWaitForEvent
    \/ VerboseDeviceHandleByIndex
    \/ VerboseHlmlCriticalError

SpecVerbose == Init /\ [][NextVerbose]_vars

\* getHlml has returned; nothing is registered and the watcher has not run
InitConstructed ==
    InitWatcher /\ InitEventFleet /\ InitEvents /\ InitList /\ InitOther

SpecEvents == InitConstructed /\ [][NextEvents]_vars

(***************************************************************************)
(* The operations of FakeHlml that read.  Each returns, and is the latest  *)
(* call; a result of WaitForEvent is kept only while that is the latest.   *)
(***************************************************************************)
\* DeleteEventSet dropping what is registered
DeleteEventSet_Clear ==
    /\ Built
    /\ registeredEventsByUUID' = EmptyMap
    /\ lastCall' = Call("DeleteEventSet", 0, "", 0, FALSE)
    /\ lastWait' = [es |-> 0, out |-> NoOutcome]
    /\ UNCHANGED registrations
    /\ UNCHANGED <<watcherVars, fleetVars, diskVars, listVars, otherVars>>

\* the frame of an operation that returns err and assigns nothing
Returns(op, uuid, index, err) ==
    /\ Built
    /\ lastCall' = Call(op, 0, uuid, index, err)
    /\ lastWait' = [es |-> 0, out |-> NoOutcome]
    /\ UNCHANGED <<registeredEventsByUUID, registrations>>
    /\ UNCHANGED <<watcherVars, fleetVars, diskVars, listVars, otherVars>>

\* lines 752-755: Initialize returns errorString(HlmlSuccess)
Initialize == Returns("Initialize", "", 0, errorString(HlmlSuccess) # "")

\* lines 758-761: Shutdown returns errorString(HlmlSuccess)
Shutdown == Returns("Shutdown", "", 0, errorString(HlmlSuccess) # "")

\* lines 811-814: DeviceCount returns config.DeviceCount
CallDeviceCount == Returns("DeviceCount", "", DeviceCount, errorString(HlmlSuccess) # "")

\* lines 817-825: DeviceHandleBySerial(serial)
CallDeviceHandleBySerial ==
    \E serial \in RegSerials :
        Returns("DeviceHandleBySerial", serial, 0, DeviceHandleBySerial(serial).err)

\* lines 897-905: DeviceHandleByIndex(index)
CallDeviceHandleByIndex ==
    \E index \in 0..MaxEventDevices :
        Returns("DeviceHandleByIndex", "", index, DeviceHandleByIndex(index).err)

\* lines 828-831: NewEventSet returns &EventSet{}
NewEventSet == Returns("NewEventSet", "", 0, FALSE)

\* lines 834-836: DeleteEventSet(es) has an empty body
DeleteEventSet == Returns("DeleteEventSet", "", 0, FALSE)

(***************************************************************************)
(* Every operation of FakeHlml on a constructed fleet.  The frequencies,   *)
(* which no operation but WaitForEvent reads, are both 0.5.                *)
(***************************************************************************)
InitProvider ==
    /\ InitConstructed
    /\ config.UnhealthyFreq = 1
    /\ config.TimeoutFreq = 1

NextProvider ==
    \/ Initialize
    \/ Shutdown
    \/ CallDeviceCount
    \/ CallDeviceHandleBySerial
    \/ CallDeviceHandleByIndex
    \/ NewEventSet
    \/ DeleteEventSet
    \/ RegisterEventForDevice
    \/ WaitForEvent

SpecProvider == InitProvider /\ [][NextProvider]_vars

(***************************************************************************)
(* FakeHlml with two goroutines registering while waits are made.          *)
(***************************************************************************)
NextConcurrent ==
    \/ RegisterLoad
    \/ RegisterStore
    \/ ConcurrentMapAccess
    \/ WaitForEvent

SpecConcurrent == InitConstructed /\ [][NextConcurrent]_vars


(***************************************************************************)
(* A specification with the fairness the Go runtime gives the watcher:     *)
(* every step of the goroutine that can run does run (WF), and a select    *)
(* whose ctx.Done() case is ready again and again takes it at some time    *)
(* (SF: select picks among its ready cases at random).  The consumer of    *)
(* xids and the caller's cancellation are outside the watcher and are not  *)
(* obliged to do anything.                                                 *)
(***************************************************************************)
SpecLive ==
    /\ Init
    /\ [][Next]_vars
    /\ WF_vars(Start)
    /\ WF_vars(RegisterEvent)
    /\ WF_vars(RegisterSend)
    /\ WF_vars(WaitReturn)
    /\ WF_vars(Deliver)
    /\ SF_vars(StopOnCancel)

(***************************************************************************)
(* Properties of the watcher.                                              *)
(***************************************************************************)
Range(seq) == {seq[i] : i \in 1..Len(seq)}

\* the critical-error bit of a kind bitmask is set
HasCriticalBit(etype) == (etype \div HlmlCriticalError) % 2 = 1

\* the current cycle's evaluation and deliveries are over
CycleDone == outcome # "none" /\ pc \in {"select", "stopped"}

\* WaitForEvent returned an event whose kind is the critical-error kind
GotCritical == waitRes.err = "nil" /\ waitRes.event.Etype = HlmlCriticalError

\* ... which could not be narrowed to one device
Unresolved == GotCritical /\ (lookupRes.err \/ lookupRes.dev.uuid = "")

\* ... whose serial resolved to a device with a readable identity
Resolved == GotCritical /\ ~lookupRes.err /\ lookupRes.dev.uuid # ""

\* C1: at the end of every cycle in which WaitForEvent returned a critical
\* event whose serial DeviceHandleBySerial resolved to a device of the known
\* set, the known device with that serial has been sent on xids in that cycle.
C1_MatchingDevicePushed ==
    (CycleDone /\ GotCritical /\ ~lookupRes.err
       /\ waitRes.event.Serial \in Range(devs))
    => \E i \in 1..Len(cyclePushed) : cyclePushed[i] = waitRes.event.Serial

\* C2: in a cycle whose critical event cannot be narrowed to one device, what
\* has been sent followed by what is still to send is the known set in its
\* order, each device once; when nothing is left the watcher is back at the
\* select (or has been stopped from there).
C2_AllDevicesPushedInOrder ==
    Unresolved =>
        /\ cyclePushed \o toSend = devs
        /\ pc \in {"deliver", "select", "stopped"}
        /\ (pc = "deliver") <=> (toSend # <<>>)

C2_Witness == Unresolved /\ pc = "select" /\ cyclePushed = devs /\ lookupRes.err

\* C3: in a cycle whose critical event's serial resolved, nothing but the
\* device with the event's serial is sent or to be sent, and at most once.
C3_OnlyMatchingDevicePushed ==
    Resolved =>
        /\ Range(cyclePushed) \cup Range(toSend) \subseteq {waitRes.event.Serial}
        /\ Len(cyclePushed) + Len(toSend) <= 1

C3_Witness == Resolved /\ pc = "select" /\ cyclePushed = <<waitRes.event.Serial>>

\* C4: an event returned without error is treated as a fault (goes on to the
\* lookup and to delivery) exactly when its kind has the critical-error bit set.
C4_CriticalBitDecides ==
    (waitRes.err = "nil" /\ outcome # "none")
    => (HasCriticalBit(waitRes.event.Etype) <=> outcome \in {"all", "match"})

\* C5: the step in which WaitForEvent returns an error (Timeout or another)
\* sends nothing, deletes no event set and takes the watcher back to the
\* select; nothing is sent in that cycle and only a cancellation stops it.
C5_ErrorStep ==
    (pc = "wait" /\ waitRes'.err \in {"timeout", "other"})
    => (pc' = "select" /\ queue' = queue /\ toSend' = <<>> /\ nDel' = nDel)

C5_ErrorState ==
    waitRes.err \in {"timeout", "other"}
    => /\ cyclePushed = <<>>
       /\ toSend = <<>>
       /\ pc \in {"select", "stopped"}
       /\ pc = "stopped" => cancelled

C5_ErrorNoDelivery == [][C5_ErrorStep]_vars /\ []C5_ErrorState

C5_Witness == waitRes.err = "other" /\ pc = "select" /\ tickReady /\ ~cancelled

\* C6: when the registration loop is about to register its next device every
\* device whose registration failed has been sent on xids; RegisterEventForDevice
\* is called for the devices of the known set in order, for all of them before
\* the watcher leaves the loop, and the loop is left for the select only.
C6_RegistrationFailure ==
    /\ pc = "register" => (regPushed = regFailed /\ regCalls = SubSeq(devs, 1, regIdx - 1))
    /\ pc = "regSend" => (regFailed = Append(regPushed, devs[regIdx])
                          /\ regCalls = SubSeq(devs, 1, regIdx))
    /\ pc \notin {"idle", "register", "regSend"} => (regPushed = regFailed /\ regCalls = devs)

C6_Witness == pc = "select" /\ regFailed = <<devs[1]>> /\ regPushed = <<devs[1]>>

\* C7: once ctx is cancelled the watcher reaches Stopped with its event set
\* deleted, in every execution.
C7_CancelLeadsToStopped == cancelled ~> (pc = "stopped" /\ nDel = 1)

\* C8: when ctx is cancelled and the watcher is at the select, the next step of
\* the watcher is the return; it does not take the tick case.
C8_CancelledSelectStops ==
    [][(cancelled /\ pc = "select" /\ pc' # pc) => pc' = "stopped"]_vars

\* C9: a run calls NewEventSet once, when it starts, and DeleteEventSet once,
\* when it stops; a stopped watcher calls nothing and sends nothing.
C9_State ==
    /\ nNew = (IF pc = "idle" THEN 0 ELSE 1)
    /\ nDel = (IF pc = "stopped" THEN 1 ELSE 0)

C9_StoppedStep ==
    pc = "stopped"
    => /\ pc' = "stopped"
       /\ UNCHANGED <<nNew, nDel, regCalls, regPushed, waitRes, lookupRes, cyclePushed>>
       /\ (queue' = queue \/ queue' = Tail(queue))

C9_EventSetLifecycle == []C9_State /\ [][C9_StoppedStep]_vars

C9_Witness == pc = "stopped" /\ nNew = 1 /\ nDel = 1 /\ regCalls = devs

(***************************************************************************)
(* Properties of the synthetic fleet.                                      *)
(***************************************************************************)
\* C10: for every index below DeviceCount, DeviceHandleBySerial of the serial
\* of DeviceHandleByIndex(i) succeeds and gives a record with the same serial,
\* uuid and bus location as DeviceHandleByIndex(i).
C10_IndexSerialConsistent ==
    \A i \in 0..(DeviceCount - 1) :
        LET byIdx == DeviceHandleByIndex(i)
            bySer == DeviceHandleBySerial(byIdx.dev.serialNumber)
        IN /\ ~byIdx.err
           /\ ~bySer.err
           /\ bySer.dev.serialNumber = byIdx.dev.serialNumber
           /\ bySer.dev.uuid = byIdx.dev.uuid
           /\ bySer.dev.pciBusID = byIdx.dev.pciBusID

\* C11: all devices of a constructed fleet have pairwise distinct serials, so
\* the by-serial map has as many records as the by-index map.
C11_SerialsDistinct ==
    status # "none" =>
        /\ \A i, j \in DOMAIN simulatedDevices :
               i # j => simulatedDevices[i].serialNumber # simulatedDevices[j].serialNumber
        /\ Cardinality(DOMAIN simulatedDevicesBySerial)
               = Cardinality(DOMAIN simulatedDevices)

\* C12: a fleet configured with N devices and K >= 1 NUMA nodes has exactly N
\* device records, and the NUMA affinity of each, as written to numa_node and
\* read back by NumaNode, lies in 0..K-1.
C12_NumaAffinityInRange ==
    (status # "none" /\ config.NumaNodes >= 1) =>
        /\ Built
        /\ Cardinality(DOMAIN simulatedDevices) = config.DeviceCount
        /\ \A i \in DOMAIN simulatedDevices :
               /\ ~NumaNode(simulatedDevices[i]).err
               /\ NumaNode(simulatedDevices[i]).present
               /\ NumaNode(simulatedDevices[i]).node \in 0..(config.NumaNodes - 1)

\* C13: constructing a fleet with zero NUMA nodes completes without failure,
\* and every device of it reports its NUMA affinity as absent.
C13_ZeroNumaNodesAbsent ==
    (status # "none" /\ config.NumaNodes = 0) =>
        /\ Built
        /\ \A i \in DOMAIN simulatedDevices :
               /\ ~NumaNode(simulatedDevices[i]).err
               /\ ~NumaNode(simulatedDevices[i]).present

FamilyNames == {"goya", "gaudi", "greco"}

\* a device the scan of GetDeviceTypeName matches: of the vendor 1da3 and with
\* a device id of one of the families
Matches(d) ==
    /\ Split(d.pciID)[1] = HabanaVendor
    /\ ~getDeviceName(Split(d.pciID)[2]).err

\* C18: whenever GetDeviceTypeName returns without error the name is goya,
\* gaudi or greco; a scan that finds no matching device (no devices, or only
\* devices of another vendor) yields an error, never an empty name.
C18_TypeNameOrError ==
    Built =>
        /\ ~GetDeviceTypeName.err => GetDeviceTypeName.name \in FamilyNames
        /\ (\A i \in DOMAIN simulatedDevices : ~Matches(simulatedDevices[i]))
               => GetDeviceTypeName.err

\* C19: for every configured "vvvv:dddd", the vendor and device files written
\* by createFilesInDirectory, read back by readIDFromFile, give exactly vvvv
\* and dddd, and getDeviceName classifies the read-back device id as it
\* classifies the configured one.
C19_IdentityRoundTrip ==
    Built =>
        \A i \in DOMAIN simulatedDevices :
            LET bus == simulatedDevices[i].pciBusID
                parts == Split(config.PciID)
            IN /\ readIDFromFile(bus, "vendor") = [err |-> FALSE, id |-> parts[1]]
               /\ readIDFromFile(bus, "device") = [err |-> FALSE, id |-> parts[2]]
               /\ getDeviceName(readIDFromFile(bus, "device").id) = getDeviceName(parts[2])

\* a fleet of three devices of a family has been written and read back
C19_Witness ==
    /\ Built
    /\ config.DeviceCount = 3
    /\ \A i \in DOMAIN simulatedDevices :
           /\ readIDFromFile(simulatedDevices[i].pciBusID, "vendor").id = HabanaVendor
           /\ getDeviceName(readIDFromFile(simulatedDevices[i].pciBusID, "device").id).name
                  = "greco"

(***************************************************************************)
(* Properties of the events of the fake provider                           *)
(***************************************************************************)
\* WaitForEvent has been called, and nothing was registered since
Waited == lastWait.out.res # "none"

\* the serials of the devices of the fleet
FleetSerials == {simulatedDevices[i].serialNumber : i \in DOMAIN simulatedDevices}

\* RegisterEventForDevice was called with the critical error and this serial
CriticalRegistered(serial) == \E r \in registrations : r.uuid = serial

CriticalRegisteredForAll == \A serial \in FleetSerials : CriticalRegistered(serial)

\* the result is a critical-error event of a registered device of the fleet
CriticalEventOfFleet(out) ==
    /\ out.res = "event"
    /\ out.Etype = HlmlEventCriticalErr
    /\ out.Serial \in FleetSerials
    /\ CriticalRegistered(out.Serial)

\* C14 as stated: with unhealthyFrequency 1.0, timeoutFrequency 0.0 and the
\* critical error registered for every device, every WaitForEvent returns a
\* critical-error event of a registered device of the fleet.
C14_AlwaysCritical ==
    (Waited /\ config.UnhealthyFreq = 2 /\ config.TimeoutFreq = 0
        /\ CriticalRegisteredForAll)
    => CriticalEventOfFleet(lastWait.out)

\* C14 amended: the same for a fleet of at least one device.
C14_AlwaysCriticalNonEmpty ==
    (Waited /\ config.UnhealthyFreq = 2 /\ config.TimeoutFreq = 0
        /\ CriticalRegisteredForAll /\ config.DeviceCount >= 1)
    => CriticalEventOfFleet(lastWait.out)

\* a wait on a fleet of two devices with different serials, both registered,
\* has returned the event of the second
C14_Witness ==
    /\ Waited /\ config.UnhealthyFreq = 2 /\ config.TimeoutFreq = 0
    /\ CriticalRegisteredForAll
    /\ config.DeviceCount = 2
    /\ simulatedDevices[0].serialNumber # simulatedDevices[1].serialNumber
    /\ lastWait.out.Serial = simulatedDevices[1].serialNumber

\* the result is the timeout error with no event, after the sleep
TimedOut(out) == out.res = "timeout" /\ out.Serial = "" /\ out.slept

RECURSIVE Dedup(_)
Dedup(events) ==
    IF events = <<>> THEN <<>>
    ELSE LET front == SubSeq(events, 1, Len(events) - 1)
             last == events[Len(events)]
         IN IF \E k \in 1..Len(front) : front[k] = last
            THEN Dedup(front)
            ELSE Append(Dedup(front), last)

\* the registered events had every (event, serial) pair been registered once
RegisteredOnce == [s \in DOMAIN registeredEventsByUUID |-> Dedup(registeredEventsByUUID[s])]

\* C16: however often an (event, serial) pair was registered, the results
\* WaitForEvent can return are those it can return after registering each
\* pair once, and a call returns one of them: a single result, with at most
\* one event.
C16_RegistrationIdempotent ==
    /\ WaitOutcomes(registeredEventsByUUID) = WaitOutcomes(RegisteredOnce)
    /\ Waited => lastWait.out \in WaitOutcomes(RegisteredOnce)

\* the critical error was registered twice for a device of the fleet, and a
\* wait has returned its critical event
C16_Witness ==
    /\ Waited
    /\ lastWait.out.res = "event"
    /\ lastWait.out.Etype = HlmlEventCriticalErr
    /\ lastWait.out.Serial \in DOMAIN registeredEventsByUUID
    /\ registeredEventsByUUID[lastWait.out.Serial]
           = <<HlmlEventCriticalErr, HlmlEventCriticalErr>>

\* C17: a wait on an event set returns a critical event or the timeout error
\* only for a serial registered against that same event set.
C17_RegistrationsPerEventSet ==
    (Waited /\ (lastWait.out.res = "timeout"
                   \/ (lastWait.out.res = "event"
                          /\ lastWait.out.Etype = HlmlEventCriticalErr)))
    => [es |-> lastWait.es, uuid |-> lastWait.out.device] \in registrations

(***************************************************************************)
(* Properties of the listing                                               *)
(***************************************************************************)
\* the errors of the steps of a listing that fail: DeviceCount, and for each
\* index below the count the handle and the five attributes
FailureErrors ==
    IF provider.countErr THEN {"DeviceCount failed"}
    ELSE UNION {LET d == provider.handles[i]
                IN IF d = NoHandle THEN {"could not find device with index"}
                   ELSE {PCIID(d).err, SerialNumber(d).err, UUID_(d).err, PCIBusID(d).err,
                         DeviceNumaNode(d).err} \ {""} :
                    i \in 0..(provider.count - 1)}

\* C20: when DeviceCount, a handle or an attribute of a device below the
\* count (PCI identity, serial, uuid, bus location, NUMA affinity) fails,
\* Devices returns the error of a failed step and no list; only when nothing
\* fails it returns a list, of every device.
C20_ListingFailFast ==
    listing.called =>
        IF FailureErrors # {}
        THEN listing.err \in FailureErrors /\ listing.devs = <<>>
        ELSE listing.err = "" /\ Len(listing.devs) = provider.count

\* a listing of two devices, of which only the bus location of the second is
\* not available, has returned that error and no list
C20_Witness ==
    /\ listing.called
    /\ provider.count = 2
    /\ FailureErrors = {"PCIBusID not available"}
    /\ provider.handles[0] \in ListedDevices
    /\ provider.handles[1] \in ListedDevices
    /\ provider.handles[1].pciBusID = ""
    /\ provider.handles[0].pciBusID # ""
    /\ listing.err = "PCIBusID not available"
    /\ listing.devs = <<>>

\* the numa_node file of the device is missing or holds a negative number
AffinityAbsent(d) ==
    \/ ~d.numaFile.exists
    \/ d.numaFile.data = <<"-", "1">>

\* C21: a device whose NUMA affinity is absent is listed with no topology,
\* never with node 0, and the devices after it are listed too.
C21_AbsentAffinityListed ==
    (listing.called /\ FailureErrors = {}) =>
        /\ Len(listing.devs) = provider.count
        /\ \A i \in 0..(provider.count - 1) :
               /\ listing.devs[i + 1].ID = provider.handles[i].serialNumber
               /\ AffinityAbsent(provider.handles[i]) => listing.devs[i + 1].Topology = <<>>

\* a listing of two devices: the first has a negative numa_node and is listed
\* with no topology, the second is on node 0 and is listed with it
C21_Witness ==
    /\ listing.called
    /\ provider.count = 2
    /\ FailureErrors = {}
    /\ provider.handles[0].numaFile.data = <<"-", "1">>
    /\ provider.handles[1].numaFile.data = <<"0", "\n">>
    /\ Len(listing.devs) = 2
    /\ listing.devs[1].Topology = <<>>
    /\ listing.devs[2].Topology = <<0>>

(***************************************************************************)
(* Further properties of the watcher                                       *)
(***************************************************************************)
\* C22: every device on the delivery queue, and every device put on it
\* after a failed registration or in the current cycle, or about to be put on
\* it, is a device of the known set.
C22_QueuedDevicesKnown ==
    /\ Range(queue) \subseteq Range(devs)
    /\ Range(regPushed) \subseteq Range(devs)
    /\ Range(cyclePushed) \subseteq Range(devs)
    /\ Range(toSend) \subseteq Range(devs)

\* a device was queued after its registration failed and another after a
\* critical event was resolved to it
C22_Witness ==
    /\ regPushed # <<>>
    /\ outcome = "match"
    /\ cyclePushed # <<>>
    /\ queue # <<>>

(***************************************************************************)
(* Properties of the decorator                                             *)
(***************************************************************************)
\* C23: the wrapped provider got every call made of VerboseHlml once, in the
\* same order and with the same arguments, and every call returned what the
\* provider returned.
C23_VerboseTransparent == callerLog = implLog

\* a registration that failed and a wait that timed out went through
C23_Witness ==
    /\ Len(callerLog) = 2
    /\ callerLog[1].op = "RegisterEventForDevice"
    /\ callerLog[1].answer = <<"error">>
    /\ callerLog[2].op = "WaitForEvent"
    /\ callerLog[2].answer[2] = "timeout"
    /\ implLog[2].args = <<2, 1000>>

(***************************************************************************)
(* Properties of concurrent registration                                   *)
(***************************************************************************)
\* the event of caller c is in the list of the serial it registered for as
\* many times as callers that have returned registered it for that serial
Kept(c) ==
    /\ callers[c].uuid \in DOMAIN registeredEventsByUUID
    /\ Cardinality({k \in 1..Len(registeredEventsByUUID[callers[c].uuid]) :
                       registeredEventsByUUID[callers[c].uuid][k] = callers[c].event})
         >= Cardinality({d \in Callers : /\ callers[d].pc = "done"
                                         /\ callers[d].uuid = callers[c].uuid
                                         /\ callers[d].event = callers[c].event})

\* C24: once the calls of RegisterEventForDevice made at the same time have
\* returned, the registry holds the registration of each.
C24_NoRegistrationLost ==
    Built => \A c \in Callers : callers[c].pc = "done" => Kept(c)

(***************************************************************************)
(* Properties of the translation of return codes                           *)
(***************************************************************************)
\* C25: errorString, of whichever provider, gives for the timeout code the
\* timeout error, and never nil.
C25_TimeoutTranslated ==
    (translation.of # "none" /\ translation.ret = HLML_ERROR_TIMEOUT) =>
        translation.err = "hlml: event timeout"

(***************************************************************************)
(* Properties of the disk after a construction                             *)
(***************************************************************************)
\* C26: after a construction the device nodes, the bus-address symlinks and
\* the physical-device directories on the disk are those of the fleet made,
\* and no other.
C26_DiskOfCurrentFleet ==
    Built =>
        /\ devNodes = createDeviceNodes(config.DeviceCount)
        /\ sysLinks = LinkedBuses(simulatedDevices, config.DeviceCount)
        /\ DOMAIN physDirs = LinkedBuses(simulatedDevices, config.DeviceCount)

(***************************************************************************)
(* Properties of the listing of DummyHLML                                  *)
(***************************************************************************)
\* C27: DummyHLML hands out a device for every index below its DeviceCount,
\* and Devices over it returns that many devices and no error.
C27_DummyListsAll ==
    (listing.called /\ provider \in DummyProviders) =>
        /\ \A i \in 0..(provider.count - 1) : provider.handles[i] # NoHandle
        /\ listing.err = ""
        /\ Len(listing.devs) = provider.count

(***************************************************************************)
(* Properties of the order of the watcher's calls                          *)
(***************************************************************************)
\* once the watcher is past its registration loop, RegisterEventForDevice was
\* called once per device of devs, in order, with the critical event; while
\* WaitForEvent runs, nothing is left to send
C28_State ==
    /\ pc \in {"select", "wait", "deliver", "stopped"} =>
           /\ regCalls = devs
           /\ regKinds = [i \in 1..NumDevs |-> HlmlCriticalError]
    /\ pc = "wait" => toSend = <<>>

\* a call of WaitForEvent takes one tick off the ticker's channel, and is
\* made with all registrations done and nothing left to send
C28_WaitStep ==
    (pc # "wait" /\ pc' = "wait") =>
        /\ tickReady /\ ~tickReady'
        /\ toSend = <<>>
        /\ regCalls = devs /\ regCalls' = devs

\* C28: the watcher registers the critical event once for every device of the
\* known set, with its serial, before it first waits; then it waits at most
\* once per tick, and never while a delivery of the event before is left.
C28_RegisterThenWaitPerTick == []C28_State /\ [][C28_WaitStep]_vars

\* a second wait begins after the one device of the event before was sent
C28_Witness ==
    /\ pc = "wait"
    /\ regCalls = devs
    /\ regFailed = <<>>
    /\ queue = <<devs[2]>>
    /\ ~tickReady

(***************************************************************************)
(* Properties of the results of WaitForEvent                               *)
(***************************************************************************)
\* the registry holds the critical error for this serial
HasCritical(serial) ==
    /\ serial \in DOMAIN registeredEventsByUUID
    /\ isEventRegistered(registeredEventsByUUID[serial], HlmlEventCriticalErr)

\* C29: a WaitForEvent that returned has drawn a device of the fleet; it
\* returned the critical event or the timeout error only if the critical error
\* is registered for the serial of that device; if it is not, it returned the
\* event of kind 0 with that serial; and an event it returned has the serial
\* of a device of the fleet.
C29_ResultFollowsRegistration ==
    (Waited /\ lastWait.out.res # "panic") =>
        /\ lastWait.out.device \in FleetSerials
        /\ (\/ lastWait.out.res = "timeout"
            \/ lastWait.out.res = "event" /\ lastWait.out.Etype = HlmlEventCriticalErr)
               => HasCritical(lastWait.out.device)
        /\ ~HasCritical(lastWait.out.device)
               => lastWait.out = EventOutcome(lastWait.out.device, 0)
        /\ lastWait.out.res = "event" => lastWait.out.Serial \in FleetSerials

\* with both frequencies at 1.0 and the critical error registered for the
\* first of two devices only, a wait has drawn the second and returned its
\* event of kind 0
C29_Witness ==
    /\ Waited
    /\ config.DeviceCount = 2 /\ config.UnhealthyFreq = 2 /\ config.TimeoutFreq = 2
    /\ simulatedDevices[0].serialNumber # simulatedDevices[1].serialNumber
    /\ HasCritical(simulatedDevices[0].serialNumber)
    /\ ~HasCritical(simulatedDevices[1].serialNumber)
    /\ lastWait.out = EventOutcome(simulatedDevices[1].serialNumber, 0)

(***************************************************************************)
(* Properties of what the operations of FakeHlml assign                    *)
(***************************************************************************)
ReadingOperations ==
    {"DeviceCount", "DeviceHandleByIndex", "DeviceHandleBySerial", "NewEventSet",
     "DeleteEventSet", "WaitForEvent", "Initialize", "Shutdown"}

\* the lists of every serial but uuid are as before, and no serial but uuid
\* came into the registry or left it
OnlyEntryChanged(uuid) ==
    /\ DOMAIN registeredEventsByUUID' \ {uuid} = DOMAIN registeredEventsByUUID \ {uuid}
    /\ \A s \in DOMAIN registeredEventsByUUID \ {uuid} :
           registeredEventsByUUID'[s] = registeredEventsByUUID[s]

C30_Step ==
    /\ lastCall'.op \in ReadingOperations =>
           UNCHANGED <<simulatedDevices, simulatedDevicesBySerial, registeredEventsByUUID>>
    /\ lastCall'.op = "RegisterEventForDevice" =>
           /\ UNCHANGED <<simulatedDevices, simulatedDevicesBySerial, config, diskVars>>
           /\ OnlyEntryChanged(lastCall'.uuid)

\* C30: on a constructed fleet, a call of DeviceCount, DeviceHandleByIndex,
\* DeviceHandleBySerial, NewEventSet, DeleteEventSet, WaitForEvent, Initialize
\* or Shutdown leaves the by-index map, the by-serial map and the registry as
\* they were, and a call of RegisterEventForDevice changes nothing but the
\* entry of the registry for the serial it was given.
C30_OnlyRegistryEntryAssigned == [][C30_Step]_vars

\* an event set was deleted after two registrations, which are still there
C30_Witness ==
    /\ lastCall.op = "DeleteEventSet"
    /\ RegCount(registeredEventsByUUID, DOMAIN registeredEventsByUUID) = 2
    /\ config.DeviceCount = 2
    /\ DOMAIN simulatedDevices = {0, 1}

====
